---------------------------- MODULE Spec2Model ----------------------------
(***************************************************************************)
(* Learning-path optimizer: the prerequisite graph and its levels, the     *)
(* batch-selection constraint model, the sprint builder, the learner model *)
(* and the select / build-sprints / record loop that drives them.          *)
(*                                                                         *)
(* Lessons are numbered 1..NumLessons; an activity's id is its position in *)
(* the activity list.  A dict is a function whose DOMAIN is the dict's key *)
(* set, a list is a sequence.                                              *)
(***************************************************************************)
EXTENDS Integers, Sequences, FiniteSets, TLC

(***************************************************************************)
(* Bounds of the model.                                                    *)
(***************************************************************************)
NumLessons == 3
NumActivities == 3
NumGraphLessons == 3
NumSprintLessons == 2
NumSprintActivities == 4
MaxSprintSizeBound == 2
NumLearnerLessons == 2
NumLearnerActivities == 3
NumLoadLessons == 2

(***************************************************************************)
(* Program constants.                                                      *)
(***************************************************************************)
MasteryCap == 100
DefaultMaxSprintSize == 5

MinMasteryValues == {50}
EffectivenessValues == {60}
DurationValues == {1, 3}
\* Performance scores in percent: 0.5 and 1.0, both exact as floats.
PerfPercents == {50, 100}

VARIABLES
    lessons,             \* Dict[id, Lesson]: min_mastery, prerequisites
    activities,          \* List[Activity]: duration, effectiveness
    pc,                  \* position of the driver
    levels,              \* result of compute_lesson_levels
    max_sprint_size,     \* SprintBuilder configuration
    use_clustering,
    cluster_distance,
    sprint_input,        \* the activity ids handed to SprintBuilder
    sprints,             \* result of build_sprints
    sprint_error,        \* exception raised by SprintBuilder, or "none"
    current_mastery,     \* LearnerModel.current_mastery
    sprint_history,      \* LearnerModel.sprint_history
    next_sprint_id,      \* LearnerModel.next_sprint_id
    status,              \* solver status of the last solve
    run_error,           \* exception raised by the last run, or "none"
    selected_activities, \* result of LearningPathOptimizer.run
    outcome,             \* why the loop ended
    lessons_file,        \* the records of lessons.json
    activities_file,     \* the records of activities.json
    timesteps,           \* ActivityScheduler.timesteps
    solution             \* the values the solver gave the scheduler's variables

vars == <<lessons, activities, pc, levels, max_sprint_size, use_clustering,
          cluster_distance, sprint_input, sprints, sprint_error,
          current_mastery, sprint_history, next_sprint_id, status,
          run_error, selected_activities, outcome, lessons_file,
          activities_file, timesteps, solution>>

\* What the loop, the sprint builder and the learner never touch.
aside == <<lessons_file, activities_file, timesteps, solution>>

(***************************************************************************)
(* Generic helpers.                                                        *)
(***************************************************************************)
EmptyDict == [x \in {} |-> 0]

Get(d, k) == IF k \in DOMAIN d THEN d[k] ELSE 0

Min2(a, b) == IF a <= b THEN a ELSE b

Max2(a, b) == IF a >= b THEN a ELSE b

MaxOf(S) == CHOOSE m \in S : \A x \in S : x <= m

CeilDiv(n, m) == (n + m - 1) \div m

RECURSIVE SumOver(_, _)
SumOver(S, f) ==
    IF S = {} THEN 0
    ELSE LET x == CHOOSE y \in S : TRUE
         IN f[x] + SumOver(S \ {x}, f)

Range(s) == {s[i] : i \in DOMAIN s}

\* The ascending list of a set of integers (Python's sorted()).
RECURSIVE Sorted(_)
Sorted(S) ==
    IF S = {} THEN <<>>
    ELSE LET m == CHOOSE x \in S : \A y \in S : x <= y
         IN <<m>> \o Sorted(S \ {m})

RECURSIVE Flatten(_)
Flatten(ss) == IF ss = <<>> THEN <<>> ELSE Head(ss) \o Flatten(Tail(ss))

(***************************************************************************)
(* utils/lesson_graph_builder.py and the networkx operations used on it.   *)
(***************************************************************************)
build_lesson_graph(ls) ==
    [nodes |-> DOMAIN ls \cup UNION {ls[l].prerequisites : l \in DOMAIN ls},
     edges |-> UNION {{<<p, l>> : p \in ls[l].prerequisites} : l \in DOMAIN ls}]

in_degree(G, n) == Cardinality({e \in G.edges : e[2] = n})

remove_nodes_from(G, S) ==
    [nodes |-> G.nodes \ S,
     edges |-> {e \in G.edges : e[1] \notin S /\ e[2] \notin S}]

predecessors(G, S) == {e[1] : e \in {d \in G.edges : d[2] \in S}}

RECURSIVE reach_back(_, _)
reach_back(G, S) ==
    LET T == S \cup predecessors(G, S)
    IN IF T = S THEN S ELSE reach_back(G, T)

\* nx.ancestors: every node with a path to n, n itself excluded.
ancestors(G, n) == reach_back(G, predecessors(G, {n})) \ {n}

HasCycle(G) == \E n \in G.nodes : n \in reach_back(G, predecessors(G, {n}))

(***************************************************************************)
(* utils/lessons_topology.py                                               *)
(***************************************************************************)
level_nodes_bug(G) == {n \in G.nodes : in_degree(G, n) <= 1}

level_nodes(G) == {n \in G.nodes : in_degree(G, n) = 0}

RECURSIVE peel_levels(_, _, _)
peel_levels(G, lv, current_level) ==
    LET ln == level_nodes(G)
    IN IF ln = {} THEN lv
       ELSE peel_levels(remove_nodes_from(G, ln),
                        [n \in DOMAIN lv \cup ln |->
                            IF n \in ln THEN current_level ELSE lv[n]],
                        current_level + 1)

compute_lesson_levels(G) == peel_levels(G, EmptyDict, 0)

lesson_graph == build_lesson_graph(lessons)

(***************************************************************************)
(* src/modules/clustering/path_clusterer.py: SprintBuilder.  Activities    *)
(* are named by their ids (positions in acts); ids is the list handed to   *)
(* the builder.  A result is a record: the exception raised ("none" when   *)
(* the call returns) and the returned list of sprints.                     *)
(***************************************************************************)
has_effectiveness(acts, a) == DOMAIN acts[a].effectiveness # {}

\* max(self.lesson_levels[l] for l in activity.effectiveness)
max_level(acts, lv, a) == MaxOf({lv[l] : l \in DOMAIN acts[a].effectiveness})

\* self.lesson_levels[l] raises KeyError for a lesson that has no level.
level_lookup_raises(acts, lv, ids) ==
    \E i \in DOMAIN ids :
        \E l \in DOMAIN acts[ids[i]].effectiveness : l \notin DOMAIN lv

\* level_groups[level]: the activities of that depth, in input order.
level_group_bug(acts, lv, ids, level) ==
    SelectSeq(ids, LAMBDA a : has_effectiveness(acts, a)
                              /\ max_level(acts, lv, a) >= level)

level_group(acts, lv, ids, level) ==
    SelectSeq(ids, LAMBDA a : has_effectiveness(acts, a)
                              /\ max_level(acts, lv, a) = level)

group_levels(acts, lv, ids) ==
    {max_level(acts, lv, ids[i]) :
        i \in {j \in DOMAIN ids : has_effectiveness(acts, ids[j])}}

\* activities[i : i + max_sprint_size] for i in range(0, n, max_sprint_size)
chunks_bug(group, m) ==
    [j \in 1..CeilDiv(Len(group), m + 1) |->
        SubSeq(group, (j - 1) * (m + 1) + 1, Min2(j * (m + 1), Len(group)))]

chunks_short_first(group, m) ==
    LET n == Len(group)
        q == CeilDiv(n, m)
        r == n - (q - 1) * m
    IN [j \in 1..q |->
           IF j = 1 THEN SubSeq(group, 1, r)
           ELSE SubSeq(group, r + (j - 2) * m + 1, r + (j - 1) * m)]

chunks(group, m) ==
    [j \in 1..CeilDiv(Len(group), m) |->
        SubSeq(group, (j - 1) * m + 1, Min2(j * m, Len(group)))]

cluster_count_bug(n, m) == Max2(1, Min2(n, CeilDiv(n, m)))

\* k = max(1, min(n // 2, ceil(n / max_sprint_size)))
cluster_count(n, m) == Max2(1, Min2(n \div 2, CeilDiv(n, m)))

\* The labels fit_predict may return for n vectors and k clusters: a label
\* in 0..k-1 per vector.  Agglomerative clustering (jaccard) cuts its merge
\* tree into exactly k non-empty clusters; KMeans (euclidean) may leave a
\* cluster empty when it finds fewer than k distinct points.
labellings(n, k, dist) ==
    IF dist = "jaccard"
    THEN {lab \in [1..n -> 0..(k - 1)] :
             \A c \in 0..(k - 1) : \E i \in 1..n : lab[i] = c}
    ELSE [1..n -> 0..(k - 1)]

\* clusters[label].append(activity) for activity, label in zip(...)
cluster_members_bug(group, lab, c) ==
    LET idx == Sorted({i \in 1..Len(group) : lab[i] >= c})
    IN [j \in 1..Len(idx) |-> group[idx[j]]]

cluster_members(group, lab, c) ==
    LET idx == Sorted({i \in 1..Len(group) : lab[i] = c})
    IN [j \in 1..Len(idx) |-> group[idx[j]]]

\* _cluster_activities: the set of cluster lists it may return.
cluster_activities(group, m, dist) ==
    IF Len(group) <= m THEN {<<group>>}
    ELSE LET k == cluster_count(Len(group), m)
         IN {[c \in 1..k |-> cluster_members(group, lab, c - 1)] :
                lab \in labellings(Len(group), k, dist)}

\* The sprints one level group may contribute.
group_sprints(group, m, uc, dist) ==
    IF uc /\ Len(group) > m
    THEN cluster_activities(group, m, dist)
    ELSE {chunks(group, m)}

\* for level in sorted(level_groups)
sorted_levels_bug(acts, lv, ids) ==
    LET s == Sorted(group_levels(acts, lv, ids))
    IN [i \in 1..Len(s) |-> s[Len(s) + 1 - i]]

sorted_levels(acts, lv, ids) == Sorted(group_levels(acts, lv, ids))

RECURSIVE ordered_sprints(_, _, _, _, _, _, _)
ordered_sprints(acts, lv, ids, lvls, m, uc, dist) ==
    IF lvls = <<>> THEN {<<>>}
    ELSE {first \o rest :
            first \in group_sprints(level_group(acts, lv, ids, Head(lvls)),
                                    m, uc, dist),
            rest \in ordered_sprints(acts, lv, ids, Tail(lvls), m, uc, dist)}

distance_raises(acts, lv, ids, m, uc, dist) ==
    /\ uc
    /\ dist \notin {"euclidean", "jaccard"}
    /\ \E level \in group_levels(acts, lv, ids) :
          Len(level_group(acts, lv, ids, level)) > m

\* SprintBuilder(lessons, ids, m, uc, dist).build_sprints(): the set of
\* results the call may have.
build_sprints(ls, acts, ids, m, uc, dist) ==
    LET lv == compute_lesson_levels(build_lesson_graph(ls))
    IN IF level_lookup_raises(acts, lv, ids)
       THEN {[error |-> "KeyError", sprints |-> <<>>]}
       ELSE IF distance_raises(acts, lv, ids, m, uc, dist)
       THEN {[error |-> "ValueError", sprints |-> <<>>]}
       ELSE {[error |-> "none", sprints |-> s] :
                s \in ordered_sprints(acts, lv, ids,
                                      sorted_levels(acts, lv, ids),
                                      m, uc, dist)}

(***************************************************************************)
(* src/dataclasses/learner.py: LearnerModel.                               *)
(***************************************************************************)
completed_activity_ids(hist) ==
    UNION {Range(hist[i].activities) : i \in DOMAIN hist}

\* int(effectiveness * perf.performance), the performance given in percent
gain_bug(e, p) == (e * p + 50) \div 100

gain(e, p) == (e * p) \div 100

\* The inner loop of record_sprint for one performance.
apply_performance_bug(cm, eff, p) ==
    [l \in DOMAIN cm \cup DOMAIN eff |->
        IF l \in DOMAIN eff
        THEN Get(cm, l) + gain(eff[l], p)
        ELSE cm[l]]

apply_performance(cm, eff, p) ==
    [l \in DOMAIN cm \cup DOMAIN eff |->
        IF l \in DOMAIN eff
        THEN Min2(MasteryCap, Get(cm, l) + gain(eff[l], p))
        ELSE cm[l]]

\* The outer loop of record_sprint; perfs is the list of performances,
\* each an (activity_id, performance) pair.
RECURSIVE apply_performances(_, _, _)
apply_performances(cm, acts, perfs) ==
    IF perfs = <<>> THEN cm
    ELSE apply_performances(
             apply_performance(cm, acts[Head(perfs).activity_id].effectiveness,
                               Head(perfs).performance),
             acts, Tail(perfs))

SprintLog(id, perfs, cm) ==
    [sprint_id |-> id,
     activities |-> [i \in DOMAIN perfs |-> perfs[i].activity_id],
     performances |-> [a \in {perfs[i].activity_id : i \in DOMAIN perfs} |->
                          (CHOOSE q \in Range(perfs) : q.activity_id = a).performance],
     mastery_after |-> cm]

\* self.sprint_history.append(SprintLog(...)): mastery_after is a copy of
\* current_mastery, so the logs appended earlier keep theirs.
append_log_bug(hist, log) ==
    Append([i \in DOMAIN hist |->
               [hist[i] EXCEPT !.mastery_after = log.mastery_after]], log)

append_log(hist, log) == Append(hist, log)

\* learner.record_sprint(performances, activities): the learner after
\* the call.
record_sprint(cm, hist, id, performances, acts) ==
    LET after == apply_performances(cm, acts, performances)
    IN [current_mastery |-> after,
        sprint_history |-> append_log(hist, SprintLog(id, performances, after)),
        next_sprint_id |-> id + 1]

\* The lessons whose mastery is a key of current_mastery and has reached
\* the threshold.
completed_lesson_ids(cm, ls) ==
    {l \in DOMAIN cm : cm[l] >= ls[l].min_mastery}

(***************************************************************************)
(* src/modules/cp/path_optimizer.py: LearningPathOptimizer.  A selection   *)
(* is the set S of candidate activities whose x variable is 1.             *)
(***************************************************************************)
\* self.activities: the activities not yet in any SprintLog
candidates_bug(acts, hist) == DOMAIN acts

candidates(acts, hist) ==
    {a \in DOMAIN acts : a \notin completed_activity_ids(hist)}

effectiveness_sum(acts, S, l) ==
    SumOver(S, [a \in S |-> Get(acts[a].effectiveness, l)])

\* _build_variables: the upper bound of mastery[l]
max_possible_mastery(acts, cand, cm, l) ==
    Get(cm, l) + effectiveness_sum(acts, cand, l)

\* Constraint 1: mastery[l] == current + sum(effectiveness * x)
mastery_value_bug(acts, cand, cm, S, l) ==
    max_possible_mastery(acts, cand, cm, l)

mastery_value(acts, cand, cm, S, l) ==
    Get(cm, l) + effectiveness_sum(acts, S, l)

\* Constraint 2: mastery[l] >= lesson.min_mastery for every lesson
threshold_ok_bug(ls, acts, cand, cm, S) ==
    LET l == MaxOf(DOMAIN ls)
    IN mastery_value(acts, cand, cm, S, l) >= ls[l].min_mastery

threshold_ok(ls, acts, cand, cm, S) ==
    \A l \in DOMAIN ls :
        mastery_value(acts, cand, cm, S, l) >= ls[l].min_mastery

\* Constraint 3: x[a] => mastery[p] >= min_mastery[p] for every ancestor p
\* of every lesson of a
gating_ok(ls, acts, cand, cm, S) ==
    \A a \in S :
        \A l \in DOMAIN acts[a].effectiveness :
            \A p \in ancestors(build_lesson_graph(ls), l) :
                mastery_value(acts, cand, cm, S, p) >= ls[p].min_mastery

\* nx.ancestors raises for a lesson that is no node of the graph, and
\* self.mastery[pre_id] raises for an ancestor that is no lesson.
add_constraints_raises(ls, acts, cand) ==
    LET G == build_lesson_graph(ls)
    IN \E a \in cand :
          \E l \in DOMAIN acts[a].effectiveness :
              \/ l \notin G.nodes
              \/ \E p \in ancestors(G, l) : p \notin DOMAIN ls

feasible(ls, acts, cand, cm, S) ==
    /\ threshold_ok(ls, acts, cand, cm, S)
    /\ gating_ok(ls, acts, cand, cm, S)

\* _build_objective(minimize)
build_objective(acts, S, minimize) ==
    IF minimize = "count" THEN Cardinality(S)
    ELSE SumOver(S, [a \in S |-> acts[a].duration])

\* run() calls self._build_objective() with the default, "duration".
run_objective_bug(acts, S) == build_objective(acts, S, "count")

run_objective(acts, S) == build_objective(acts, S, "duration")

\* self.solver.Solve(self.model): the (status, selection) pairs the solver
\* may end with.  OPTIMAL comes with a feasible selection of minimum
\* objective, FEASIBLE with any feasible one (the time limit ended the
\* search), UNKNOWN with none (the time limit came before any solution).
solve(ls, acts, cand, cm) ==
    LET feas == {S \in SUBSET cand : feasible(ls, acts, cand, cm, S)}
        best == {S \in feas :
                    \A T \in feas : run_objective(acts, S) <= run_objective(acts, T)}
    IN IF feas = {}
       THEN {[status |-> "INFEASIBLE", x |-> {}], [status |-> "UNKNOWN", x |-> {}]}
       ELSE {[status |-> "OPTIMAL", x |-> S] : S \in best}
            \cup {[status |-> "FEASIBLE", x |-> S] : S \in feas}
            \cup {[status |-> "UNKNOWN", x |-> {}]}

\* LearningPathOptimizer(lessons, acts, learner).run(): the exception
\* raised ("none" when a list is returned), the solver status, and the
\* returned list, the selected candidates in list order.
run(ls, acts, hist, cm) ==
    LET cand == candidates(acts, hist)
    IN IF add_constraints_raises(ls, acts, cand)
       THEN {[error |-> "RuntimeError", status |-> "none", selected |-> <<>>]}
       ELSE {IF r.status \in {"OPTIMAL", "FEASIBLE"}
             THEN [error |-> "none", status |-> r.status,
                   selected |-> Sorted(r.x)]
             ELSE [error |-> "ValueError", status |-> r.status,
                   selected |-> <<>>] :
             r \in solve(ls, acts, cand, cm)}

\* The sprint builder and the learner before anything has run.
Idle ==
    /\ max_sprint_size = DefaultMaxSprintSize
    /\ use_clustering = TRUE
    /\ cluster_distance = "jaccard"
    /\ sprint_input = <<>>
    /\ sprints = <<>>
    /\ sprint_error = "none"
    /\ current_mastery = EmptyDict
    /\ sprint_history = <<>>
    /\ next_sprint_id = 1
    /\ status = "none"
    /\ run_error = "none"
    /\ selected_activities = <<>>
    /\ outcome = "none"
    /\ lessons_file = <<>>
    /\ activities_file = <<>>
    /\ timesteps = 0
    /\ solution = EmptyDict

(***************************************************************************)
(* The inputs the specifications draw from.                                *)
(***************************************************************************)
\* Prerequisite relations over lessons 1..n: none, the chain 1 -> 2 -> ..
\* -> n, and the chain closed into a cycle.
PrerequisiteChoices(n) ==
    {[l \in 1..n |-> {}],
     [l \in 1..n |-> IF l = 1 THEN {} ELSE {l - 1}],
     [l \in 1..n |-> IF l = 1 THEN {n} ELSE {l - 1}]}

\* The chain whose first lesson names a prerequisite, 0, that is no lesson.
DanglingPrerequisites(n) ==
    [l \in 1..n |-> IF l = 1 THEN {0} ELSE {l - 1}]

LessonsOver(n, pres) ==
    {[l \in 1..n |-> [min_mastery |-> mm[l], prerequisites |-> pre[l]]] :
        mm \in [1..n -> MinMasteryValues], pre \in pres}

LessonChoices(n) == LessonsOver(n, PrerequisiteChoices(n))

\* effectiveness dicts: no lesson, one lesson, or two consecutive lessons
\* of 1..n, each with a score.
EffectivenessChoices(n) ==
    UNION {[S -> EffectivenessValues] :
             S \in {{}} \cup {{l} : l \in 1..n}
                        \cup {{l, l + 1} : l \in 1..(n - 1)}}

ActivityChoices(n, durations) ==
    [duration : durations, effectiveness : EffectivenessChoices(n)]

(***************************************************************************)
(* Step 2 of the loop, and the whole of specification SpecSprint:          *)
(* SprintBuilder(...).build_sprints() on sprint_input.                     *)
(***************************************************************************)
\* Where the driver goes after build_sprints: on to the record step, or
\* out of the loop when the builder raised.
after_build_bug(r) == IF r.error = "none" THEN "record" ELSE "select"

after_build(r) == IF r.error = "none" THEN "record" ELSE "ended"

BuildSprints ==
    /\ pc = "cluster"
    /\ UNCHANGED aside
    /\ \E r \in build_sprints(lessons, activities, sprint_input,
                              max_sprint_size, use_clustering,
                              cluster_distance) :
          /\ sprints' = r.sprints
          /\ sprint_error' = r.error
          /\ pc' = after_build(r)
          /\ outcome' = IF r.error = "none" THEN outcome ELSE "sprint_error"
    /\ UNCHANGED <<lessons, activities, levels, max_sprint_size,
                   use_clustering, cluster_distance, sprint_input,
                   current_mastery, sprint_history, next_sprint_id, status,
                   run_error, selected_activities>>

InitSprint ==
    /\ lessons \in LessonChoices(NumSprintLessons)
    /\ activities \in UNION {[1..n -> ActivityChoices(NumSprintLessons, {1})] :
                               n \in 0..NumSprintActivities}
    /\ sprint_input = [i \in 1..Len(activities) |-> i]
    /\ max_sprint_size \in 1..MaxSprintSizeBound
    /\ use_clustering \in BOOLEAN
    /\ cluster_distance \in {"euclidean", "jaccard"}
    /\ pc = "cluster"
    /\ levels = EmptyDict
    /\ sprints = <<>>
    /\ sprint_error = "none"
    /\ current_mastery = EmptyDict
    /\ sprint_history = <<>>
    /\ next_sprint_id = 1
    /\ status = "none"
    /\ run_error = "none"
    /\ selected_activities = <<>>
    /\ outcome = "none"
    /\ lessons_file = <<>>
    /\ activities_file = <<>>
    /\ timesteps = 0
    /\ solution = EmptyDict

NextSprint == BuildSprints

SpecSprint == InitSprint /\ [][NextSprint]_vars

sprints_returned == pc = "record"

occurrences(flat, a) == Cardinality({i \in DOMAIN flat : flat[i] = a})

\* C8: build_sprints loses and duplicates no activity: every input activity
\* with non-empty effectiveness is in the returned sprints exactly once,
\* every activity with empty effectiveness in none.
C8_NoActivityLostOrDuplicated ==
    sprints_returned =>
        LET flat == Flatten(sprints)
        IN \A i \in DOMAIN sprint_input :
              occurrences(flat, sprint_input[i]) =
                  IF has_effectiveness(activities, sprint_input[i])
                  THEN 1 ELSE 0

C8_Witness ==
    /\ sprints_returned
    /\ use_clustering
    /\ Len(sprints) >= 2
    /\ \E i \in DOMAIN sprints : Len(sprints[i]) > max_sprint_size
    /\ \E i \in DOMAIN sprint_input :
          ~has_effectiveness(activities, sprint_input[i])

\* depth(a) = max of level[l] over the lessons l of a.effectiveness
depths ==
    LET lv == compute_lesson_levels(lesson_graph)
    IN [a \in {b \in DOMAIN activities : has_effectiveness(activities, b)} |->
           max_level(activities, lv, a)]

\* C9: all activities of one returned sprint have the same depth, the
\* maximum level of the lessons in their effectiveness.
C9_SprintHasOneDepth ==
    sprints_returned =>
        LET d == depths
        IN \A i \in DOMAIN sprints :
              \A a \in Range(sprints[i]), b \in Range(sprints[i]) :
                  d[a] = d[b]

C9_Witness ==
    /\ sprints_returned
    /\ \E i \in DOMAIN sprints, j \in DOMAIN sprints :
          /\ Len(sprints[i]) >= 2
          /\ sprints[j] # <<>>
          /\ depths[sprints[i][1]] # depths[sprints[j][1]]
    /\ \E i \in DOMAIN sprints :
          \E a \in Range(sprints[i]) :
              Cardinality(DOMAIN activities[a].effectiveness) = 2

\* C10: with use_clustering = False every returned sprint has at most
\* max_sprint_size activities.
C10_ChunksBounded ==
    (sprints_returned /\ ~use_clustering) =>
        \A i \in DOMAIN sprints : Len(sprints[i]) <= max_sprint_size

C10_Witness ==
    /\ sprints_returned
    /\ ~use_clustering
    /\ max_sprint_size = 2
    /\ \E i \in DOMAIN sprints :
          /\ i < Len(sprints)
          /\ Len(sprints[i]) = 2
          /\ Len(sprints[i + 1]) = 1
          /\ depths[sprints[i][1]] = depths[sprints[i + 1][1]]

\* C11: with use_clustering = True every returned sprint has at most
\* max_sprint_size activities, whatever labels the clustering returns.
C11_ClusteredSprintsBounded ==
    (sprints_returned /\ use_clustering) =>
        \A i \in DOMAIN sprints : Len(sprints[i]) <= max_sprint_size

\* C12: the returned sprints are in ascending depth order: no activity of
\* a sprint is deeper than an activity of a later sprint, and a non-empty
\* first sprint holds activities of the least depth among the input.
C12_SprintsAscendByDepth ==
    sprints_returned =>
        LET d == depths
        IN /\ \A i \in DOMAIN sprints, j \in DOMAIN sprints :
                  i < j =>
                      \A a \in Range(sprints[i]), b \in Range(sprints[j]) :
                          d[a] <= d[b]
           /\ (sprints # <<>> /\ sprints[1] # <<>>) =>
                  \A a \in DOMAIN d \cap Range(sprint_input) :
                      d[sprints[1][1]] <= d[a]

C12_Witness ==
    /\ sprints_returned
    /\ \E i \in DOMAIN sprint_input, j \in DOMAIN sprint_input :
          /\ i < j
          /\ has_effectiveness(activities, sprint_input[i])
          /\ has_effectiveness(activities, sprint_input[j])
          /\ depths[sprint_input[i]] > depths[sprint_input[j]]
    /\ \E i \in DOMAIN sprints :
          /\ i < Len(sprints)
          /\ sprints[i] # <<>>
          /\ sprints[i + 1] # <<>>
          /\ depths[sprints[i][1]] < depths[sprints[i + 1][1]]

(***************************************************************************)
(* Specification Spec: the loop of tests/test_path.py.  Each cycle selects *)
(* activities (step 1), builds sprints (step 2) and records the first      *)
(* sprint with the performances the learner scored (step 3).               *)
(***************************************************************************)
\* The order of the activity list does not matter to the loop while every
\* level group fits one sprint, so the lists are taken in one order.
ActivityKey(act) ==
    act.duration
    + 4 * SumOver(DOMAIN act.effectiveness,
                  [l \in DOMAIN act.effectiveness |-> 2 ^ l])

Init ==
    /\ lessons \in LessonChoices(NumLessons)
                   \cup LessonsOver(NumLessons,
                                    {DanglingPrerequisites(NumLessons)})
    /\ activities \in
          {acts \in [1..NumActivities ->
                        ActivityChoices(NumLessons, DurationValues)] :
              \A i \in 1..(NumActivities - 1) :
                  ActivityKey(acts[i]) <= ActivityKey(acts[i + 1])}
    /\ pc = "select"
    /\ levels = EmptyDict
    /\ Idle

\* Step 1: optimizer = LearningPathOptimizer(...); optimizer.run().  A
\* RuntimeError ends the loop, and so does a ValueError or an empty list
\* ("if not selected_activities: break").
\* Where the loop goes after run: break on RuntimeError, break when
\* nothing was selected (ValueError leaves selected_activities None),
\* otherwise on to the sprint builder.
after_select_bug(r) ==
    IF r.error = "RuntimeError" THEN "ended"
    ELSE IF r.selected = <<>> THEN "select"
    ELSE "cluster"

after_select(r) ==
    IF r.error = "RuntimeError" THEN "ended"
    ELSE IF r.selected = <<>> THEN "ended"
    ELSE "cluster"

Select ==
    /\ pc = "select"
    /\ UNCHANGED aside
    /\ \E r \in run(lessons, activities, sprint_history, current_mastery) :
          /\ status' = r.status
          /\ run_error' = r.error
          /\ selected_activities' = r.selected
          /\ pc' = after_select(r)
          /\ IF r.error = "RuntimeError"
             THEN /\ outcome' = "solver_failed"
                  /\ UNCHANGED sprint_input
             ELSE IF r.selected = <<>>
             THEN /\ outcome' = "no_selection"
                  /\ UNCHANGED sprint_input
             ELSE /\ outcome' = outcome
                  /\ sprint_input' = r.selected
    /\ UNCHANGED <<lessons, activities, levels, max_sprint_size,
                   use_clustering, cluster_distance, sprints, sprint_error,
                   current_mastery, sprint_history, next_sprint_id>>

\* for a in sprints[0]: the sprint the learner performs in this cycle.
performed_sprint_bug(ss) == Flatten(ss)

performed_sprint(ss) == ss[1]

\* Step 3: performances for the activities of sprints[0], then
\* learner.record_sprint(performances, all_activities).  sprints[0] of an
\* empty list raises IndexError, which nothing catches.
RecordSprint ==
    /\ pc = "record"
    /\ UNCHANGED aside
    /\ IF sprints = <<>>
       THEN /\ pc' = "crashed"
            /\ outcome' = "IndexError"
            /\ UNCHANGED <<current_mastery, sprint_history, next_sprint_id>>
       ELSE \E score \in [DOMAIN performed_sprint(sprints) -> PerfPercents] :
               LET performances ==
                       [i \in DOMAIN performed_sprint(sprints) |->
                           [activity_id |-> performed_sprint(sprints)[i],
                            performance |-> score[i]]]
                   learner == record_sprint(current_mastery, sprint_history,
                                            next_sprint_id, performances,
                                            activities)
               IN /\ current_mastery' = learner.current_mastery
                  /\ sprint_history' = learner.sprint_history
                  /\ next_sprint_id' = learner.next_sprint_id
                  /\ pc' = "select"
                  /\ outcome' = outcome
    /\ UNCHANGED <<lessons, activities, levels, max_sprint_size,
                   use_clustering, cluster_distance, sprint_input, sprints,
                   sprint_error, status, run_error, selected_activities>>

Next == Select \/ BuildSprints \/ RecordSprint

Spec == Init /\ [][Next]_vars

\* The solve of this cycle has returned a selection and the mastery it
\* was computed from is still the learner's.
selection_returned ==
    /\ status \in {"OPTIMAL", "FEASIBLE"}
    /\ pc # "select"

selection == Range(selected_activities)

\* current_mastery[l] plus the effectiveness on l of the selection
planned_mastery(l) ==
    Get(current_mastery, l)
    + SumOver(selection, [a \in selection |-> Get(activities[a].effectiveness, l)])

\* C1: whenever run returns a selection, every lesson's current mastery
\* plus the effectiveness of the returned activities reaches min_mastery.
C1_ThresholdReached ==
    selection_returned =>
        \A l \in DOMAIN lessons : planned_mastery(l) >= lessons[l].min_mastery

C1_Witness ==
    /\ selection_returned
    /\ pc = "cluster"
    /\ sprint_history # <<>>
    /\ \E l \in DOMAIN lessons :
          /\ Get(current_mastery, l) > 0
          /\ Get(current_mastery, l) < lessons[l].min_mastery

\* C2: in every returned selection, every transitive prerequisite p of
\* every lesson of every selected activity has planned mastery (current
\* plus the selection's effectiveness) of at least min_mastery[p].
C2_SelectedPrerequisitesPlanned ==
    selection_returned =>
        \A a \in selection :
            \A l \in DOMAIN activities[a].effectiveness :
                \A p \in ancestors(lesson_graph, l) :
                    planned_mastery(p) >= lessons[p].min_mastery

C2_Witness ==
    /\ selection_returned
    /\ pc = "cluster"
    /\ \E a \in selection :
          \E l \in DOMAIN activities[a].effectiveness :
              /\ Cardinality(ancestors(lesson_graph, l)) >= 2
              /\ \E p \in ancestors(lesson_graph, l) :
                    Get(current_mastery, p) < lessons[p].min_mastery

\* C3: every activity recorded in a sprint touches only lessons whose
\* transitive prerequisites all have current_mastery >= min_mastery
\* before the sprint is recorded.
C3_PrerequisitesMasteredBeforeRecord ==
    (pc = "record" /\ sprints # <<>>) =>
        \A a \in Range(sprints[1]) :
            \A l \in DOMAIN activities[a].effectiveness :
                \A p \in ancestors(lesson_graph, l) :
                    Get(current_mastery, p) >= lessons[p].min_mastery

\* C4: when the solver status is OPTIMAL, no subset of the candidates that
\* satisfies the constraints has a smaller total duration than the
\* returned set (run builds the objective in its default, duration mode).
C4_OptimalHasMinimumDuration ==
    (selection_returned /\ status = "OPTIMAL") =>
        LET cand == candidates(activities, sprint_history)
        IN \A S \in SUBSET cand :
              feasible(lessons, activities, cand, current_mastery, S) =>
                  build_objective(activities, selection, "duration")
                      <= build_objective(activities, S, "duration")

C4_Witness ==
    /\ selection_returned
    /\ status = "OPTIMAL"
    /\ pc = "cluster"
    /\ LET cand == candidates(activities, sprint_history)
       IN \E S \in SUBSET cand :
             /\ feasible(lessons, activities, cand, current_mastery, S)
             /\ Cardinality(S) <= Cardinality(selection)
             /\ build_objective(activities, S, "duration")
                   > build_objective(activities, selection, "duration")

\* C5: no activity is performed twice: each activity id is in at most one
\* SprintLog of sprint_history.
C5_NoActivityTwice ==
    \A i \in DOMAIN sprint_history, j \in DOMAIN sprint_history :
        i # j => Range(sprint_history[i].activities)
                 \cap Range(sprint_history[j].activities) = {}

C5_Witness ==
    /\ Len(sprint_history) >= 2
    /\ pc = "cluster"

\* learner = LearnerModel(set(lessons.keys())): every lesson is a target.
target_lessons == DOMAIN lessons

\* The target lessons whose mastery is below the threshold.
remaining_gap ==
    {l \in target_lessons : Get(current_mastery, l) < lessons[l].min_mastery}

\* What the loop reports when it ends with every target mastered: the
\* solve is OPTIMAL with an empty selection and the loop breaks on
\* "not selected_activities".
done_report == "no_selection"

\* C17: the loop classifies its end: an end after an infeasible solve with
\* a target lesson still below its threshold (STUCK) is reported
\* differently from the end with every target mastered (DONE).
C17_StuckToldFromDone ==
    (pc = "ended" /\ status = "INFEASIBLE" /\ remaining_gap # {}) =>
        outcome # done_report

\* C18: a solve that ended UNKNOWN (time limit, no solution) is reported by
\* an error of its own, never by the error that reports "learning complete
\* or no feasible activities remain", which is a ValueError.
C18_TimeoutToldFromInfeasible ==
    status = "UNKNOWN" => run_error # "ValueError"

\* C19: once the loop has reported its end, nothing runs any more: no
\* solve, no sprint building, no record, and the learner stays as it is.
C19_NothingAfterTheEnd ==
    [][outcome # "none" => UNCHANGED vars]_vars

C19_Witness ==
    /\ pc = "ended"
    /\ outcome = "no_selection"
    /\ Len(sprint_history) >= 1
    /\ candidates(activities, sprint_history) # {}

(***************************************************************************)
(* Specification SpecFair: the loop as a running program: while the driver *)
(* is inside the loop it moves on.  Besides the inputs of Spec it starts   *)
(* from inputs with one lesson and NumSprintActivities activities and a    *)
(* max_sprint_size scaled down from the default of 5 to at most            *)
(* MaxSprintSizeBound, so that the loop clusters a level group.            *)
(***************************************************************************)
InitScaled ==
    /\ lessons \in LessonChoices(1)
    /\ activities \in [1..NumSprintActivities -> ActivityChoices(1, {1})]
    /\ pc = "select"
    /\ levels = EmptyDict
    /\ max_sprint_size \in 1..MaxSprintSizeBound
    /\ use_clustering = TRUE
    /\ cluster_distance = "jaccard"
    /\ sprint_input = <<>>
    /\ sprints = <<>>
    /\ sprint_error = "none"
    /\ current_mastery = EmptyDict
    /\ sprint_history = <<>>
    /\ next_sprint_id = 1
    /\ status = "none"
    /\ run_error = "none"
    /\ selected_activities = <<>>
    /\ outcome = "none"
    /\ lessons_file = <<>>
    /\ activities_file = <<>>
    /\ timesteps = 0
    /\ solution = EmptyDict

InitFair == Init \/ InitScaled

\* The driver is at a statement of the loop body.
Running == pc \in {"select", "cluster", "record"}

\* The driver leaves the statement it is at.  Every step of Next changes
\* pc, and a running driver always has a step of Next to take.
Advance ==
    /\ Running
    /\ pc' \in {"select", "cluster", "record", "ended", "crashed"}
    /\ pc' # pc

SpecFair == InitFair /\ [][Next]_vars /\ WF_pc(Advance)

InitLevels ==
    /\ lessons \in [1..NumGraphLessons ->
                      [min_mastery : MinMasteryValues,
                       prerequisites : SUBSET (1..NumGraphLessons)]]
    /\ activities = <<>>
    /\ pc = "levels"
    /\ levels = EmptyDict
    /\ Idle

ComputeLevels ==
    /\ pc = "levels"
    /\ UNCHANGED aside
    /\ levels' = compute_lesson_levels(build_lesson_graph(lessons))
    /\ pc' = "levels_returned"
    /\ UNCHANGED <<lessons, activities, max_sprint_size, use_clustering,
                   cluster_distance, sprint_input, sprints, sprint_error,
                   current_mastery, sprint_history, next_sprint_id, status,
                   run_error, selected_activities, outcome>>

NextLevels == ComputeLevels

SpecLevels == InitLevels /\ [][NextLevels]_vars

\* C6: for every acyclic prerequisite graph, compute_lesson_levels gives
\* every lesson a level, and level(p) < level(l) for every edge p -> l.
C6_LevelsRespectEdges ==
    (pc = "levels_returned" /\ ~HasCycle(lesson_graph)) =>
        /\ DOMAIN levels = lesson_graph.nodes
        /\ \A e \in lesson_graph.edges : levels[e[1]] < levels[e[2]]

C6_Witness ==
    /\ pc = "levels_returned"
    /\ ~HasCycle(lesson_graph)
    /\ \E e \in lesson_graph.edges, d \in lesson_graph.edges : e[2] = d[1]

\* C7: a lesson set whose prerequisite relation has a cycle is rejected
\* (CycleError): compute_lesson_levels returns no level map for it.
C7_CycleRejected ==
    pc = "levels_returned" => ~HasCycle(lesson_graph)


(***************************************************************************)
(* Specification SpecLearner: LearnerModel on its own.  record_sprint is   *)
(* called with the performances of a sprint of activities not recorded     *)
(* before, as the loop calls it, until no activity is left.  The sprints   *)
(* take the activities in list order, and the activity list is any list.   *)
(***************************************************************************)
LearnerMinMasteryValues == {0, 50}
LearnerEffectivenessValues == {25, 60}

\* effectiveness dicts: no lesson, the first lesson with either score,
\* the last lesson, or the first two lessons with the two scores.
LearnerEffectivenessChoices(n) ==
    {EmptyDict, n :> 60, (1 :> 60) @@ (2 :> 25)}
        \cup {1 :> e : e \in LearnerEffectivenessValues}

\* The next sprint: the first k of the activity ids R, for any k >= 1.
SprintChoices(R) ==
    LET s == Sorted(R)
    IN {SubSeq(s, 1, k) : k \in 1..Len(s)}

InitLearner ==
    /\ lessons \in {[l \in 1..NumLearnerLessons |->
                        [min_mastery |-> mm, prerequisites |-> {}]] :
                       mm \in LearnerMinMasteryValues}
    /\ activities \in [1..NumLearnerActivities ->
                         [duration : {1},
                          effectiveness :
                              LearnerEffectivenessChoices(NumLearnerLessons)]]
    /\ pc = "learner"
    /\ levels = EmptyDict
    /\ Idle

RecordAnySprint ==
    /\ pc = "learner"
    /\ UNCHANGED aside
    /\ \E ids \in SprintChoices(candidates(activities, sprint_history)) :
          \E score \in [DOMAIN ids -> PerfPercents] :
              LET performances ==
                      [i \in DOMAIN ids |->
                          [activity_id |-> ids[i], performance |-> score[i]]]
                  learner == record_sprint(current_mastery, sprint_history,
                                           next_sprint_id, performances,
                                           activities)
              IN /\ current_mastery' = learner.current_mastery
                 /\ sprint_history' = learner.sprint_history
                 /\ next_sprint_id' = learner.next_sprint_id
    /\ UNCHANGED <<lessons, activities, pc, levels, max_sprint_size,
                   use_clustering, cluster_distance, sprint_input, sprints,
                   sprint_error, status, run_error, selected_activities,
                   outcome>>

NextLearner == RecordAnySprint

SpecLearner == InitLearner /\ [][NextLearner]_vars

\* floor(e * p) for a score e and a performance of p percent: the greatest
\* integer g with g <= e * p / 100.
floor_product(e, p) ==
    CHOOSE g \in 0..e : 100 * g <= e * p /\ e * p < 100 * (g + 1)

\* The lessons in the effectiveness of the activities of a SprintLog.
covered_lessons(log) ==
    UNION {DOMAIN activities[a].effectiveness : a \in Range(log.activities)}

\* What the activities of a SprintLog add to lesson l before the cap.
logged_gain(log, l) ==
    LET A == Range(log.activities)
    IN SumOver(A, [a \in A |->
                      floor_product(Get(activities[a].effectiveness, l),
                                    log.performances[a])])

C14_MasteryInRange ==
    /\ \A l \in DOMAIN current_mastery : current_mastery[l] \in 0..100
    /\ \A i \in DOMAIN sprint_history :
          \A l \in DOMAIN sprint_history[i].mastery_after :
              sprint_history[i].mastery_after[l] \in 0..100

C14_Witness ==
    \E l \in DOMAIN current_mastery :
        /\ current_mastery[l] = 100
        /\ SumOver(DOMAIN sprint_history,
                   [i \in DOMAIN sprint_history |->
                       logged_gain(sprint_history[i], l)]) > 100

\* C15: sprint_history only grows: a record_sprint call appends exactly one
\* SprintLog whose mastery_after is the mastery right after the call, and
\* leaves every SprintLog appended before as it was.
C15_HistoryAppendOnly ==
    [][\/ UNCHANGED <<sprint_history, current_mastery>>
       \/ /\ Len(sprint_history') = Len(sprint_history) + 1
          /\ SubSeq(sprint_history', 1, Len(sprint_history)) = sprint_history
          /\ sprint_history'[Len(sprint_history')].mastery_after =
                 current_mastery']_vars

C15_Witness ==
    /\ Len(sprint_history) >= 2
    /\ sprint_history[1].mastery_after # current_mastery
    /\ sprint_history[1].mastery_after # EmptyDict

\* C16: completed_lesson_ids is the set of lessons l with mastery[l] >=
\* min_mastery[l], the mastery of a lesson never updated being 0.
C16_CompletedLessons ==
    pc = "learner" =>
        completed_lesson_ids(current_mastery, lessons) =
            {l \in DOMAIN lessons :
                Get(current_mastery, l) >= lessons[l].min_mastery}


(***************************************************************************)
(* Specification SpecLoad: utils/data_loader.py.  load_data reads the two  *)
(* files and builds the lesson dict and the activity list; the graph       *)
(* builder and compute_lesson_levels then run on what it returned.         *)
(***************************************************************************)
\* {lesson["id"]: Lesson(**lesson) for lesson in lessons}: a later record
\* replaces an earlier one with the same id.
load_lessons(records) ==
    [id \in {records[i].id : i \in DOMAIN records} |->
        LET last == MaxOf({i \in DOMAIN records : records[i].id = id})
        IN [min_mastery |-> records[last].min_mastery,
            prerequisites |-> records[last].prerequisites]]

\* [Activity(**activity) for activity in activities]
load_activities(records) ==
    [i \in DOMAIN records |->
        [duration |-> records[i].duration,
         effectiveness |-> records[i].effectiveness]]

load_data(lfile, afile) ==
    [lessons |-> load_lessons(lfile), activities |-> load_activities(afile)]

\* The records of the files: ids in 1..NumLoadLessons, prerequisites and
\* effectiveness keys in 0..NumLoadLessons, where 0 is the id of no lesson.
InitLoad ==
    /\ lessons_file \in
          [1..NumLoadLessons ->
              [id : 1..NumLoadLessons,
               min_mastery : MinMasteryValues,
               prerequisites : {{}} \cup {{p} : p \in 0..NumLoadLessons}]]
    /\ activities_file \in
          [1..1 -> [duration : {1},
                    effectiveness :
                        {EmptyDict} \cup
                        {l :> e : l \in 0..NumLoadLessons,
                                  e \in EffectivenessValues}]]
    /\ lessons = EmptyDict
    /\ activities = <<>>
    /\ pc = "load"
    /\ levels = EmptyDict
    /\ max_sprint_size = DefaultMaxSprintSize
    /\ use_clustering = TRUE
    /\ cluster_distance = "jaccard"
    /\ sprint_input = <<>>
    /\ sprints = <<>>
    /\ sprint_error = "none"
    /\ current_mastery = EmptyDict
    /\ sprint_history = <<>>
    /\ next_sprint_id = 1
    /\ status = "none"
    /\ run_error = "none"
    /\ selected_activities = <<>>
    /\ outcome = "none"
    /\ timesteps = 0
    /\ solution = EmptyDict

LoadData ==
    /\ pc = "load"
    /\ LET data == load_data(lessons_file, activities_file)
       IN /\ lessons' = data.lessons
          /\ activities' = data.activities
    /\ pc' = "levels"
    /\ UNCHANGED <<levels, max_sprint_size, use_clustering, cluster_distance,
                   sprint_input, sprints, sprint_error, current_mastery,
                   sprint_history, next_sprint_id, status, run_error,
                   selected_activities, outcome, aside>>

NextLoad == LoadData \/ ComputeLevels

SpecLoad == InitLoad /\ [][NextLoad]_vars

\* C21: once load_data has returned, every prerequisite of a lesson and
\* every effectiveness key of an activity is the id of a loaded lesson:
\* records that name an unknown id were rejected and reach nothing that
\* runs after loading.
C21_UnknownIdsRejected ==
    pc \in {"levels", "levels_returned"} =>
        /\ \A l \in DOMAIN lessons :
              lessons[l].prerequisites \subseteq DOMAIN lessons
        /\ \A a \in DOMAIN activities :
              DOMAIN activities[a].effectiveness \subseteq DOMAIN lessons

----------------------------------------------------------------------------
\* Timestep mode: ActivityScheduler of src/main.py.
\*
\* A lesson is [required_mastery_level, min_coverage, prerequisites] and an
\* activity [max_selection_limit, lesson_contributions].  Levels,
\* thresholds and contributions are written in hundredths (2 is the float
\* 0.02); lesson ids and activity ids are separate name spaces ("L1",
\* "A1" in the data), so an activity key never meets a lesson key.

NumStepLessons == 2
NumStepActivities == 2
NumTimesteps == 2

SCALE == 100

\* The hundredths h for which the float product (h / 100) * SCALE falls
\* just below h, so that int() cuts it to h - 1.
TruncatedHundredths == {29, 57, 58}

\* int(x * SCALE) for the float x = h / 100.
scaled(h) == IF h \in TruncatedHundredths THEN h - 1 ELSE h

extract_required_mastery_levels(ls) ==
    [l \in DOMAIN ls |-> scaled(ls[l].required_mastery_level)]

extract_lessons_prerequisites(ls) ==
    [l \in DOMAIN ls |->
        [p \in DOMAIN ls[l].prerequisites |-> scaled(ls[l].prerequisites[p])]]

extract_acquisition_matrices(acts, ls) ==
    [a \in DOMAIN acts |->
        [l \in DOMAIN ls |->
            IF l \in DOMAIN acts[a].lesson_contributions
            THEN scaled(acts[a].lesson_contributions[l])
            ELSE 0]]

get_activity_limits(acts) ==
    [a \in DOMAIN acts |-> acts[a].max_selection_limit]

get_lesson_min_coverages(ls) == [l \in DOMAIN ls |-> ls[l].min_coverage]

\* The fields __init__ sets before it builds the constraint model.
ActivityScheduler(ls, acts, T) ==
    [required_mastery_levels |-> extract_required_mastery_levels(ls),
     acquisition_matrix |-> extract_acquisition_matrices(acts, ls),
     activity_limits |-> get_activity_limits(acts),
     lesson_coverages |-> get_lesson_min_coverages(ls),
     lesson_prerequisites |-> extract_lessons_prerequisites(ls),
     timesteps |-> T]

steps(s) == 1..s.timesteps

\* create_variables.  P, M, X and Y are one dict object, so the BoolVar
\* stored as P[lesson_id, t] replaces the IntVar stored a few lines
\* earlier as M[lesson_id, t]: for t >= 1 the variable every constraint
\* reads as M[lesson_id, t] is 0/1.  Only M[lesson_id, 0] keeps the
\* IntVar, whose upper bound is SCALE times the already scaled level.
mastery_domain(s, l, t) ==
    IF t >= 1 /\ l \in DOMAIN s.lesson_prerequisites
    THEN {0, 1}
    ELSE 0..(SCALE * s.required_mastery_levels[l])

\* The assignments of the BoolVars X[activity_id, t].
assignments(s) == [(DOMAIN s.activity_limits) \X steps(s) -> {0, 1}]

\* sum(X[activity_id, t] for activity_id in activity_limits): the sum of
\* 0/1 variables is the number of them that are 1.
used_at(X, s, t) ==
    Cardinality({a \in DOMAIN s.activity_limits : X[a, t] = 1})

\* AddMaxEquality(Y[t], [X[activity_id, t] ...]) leaves Y[t] one value.
max_equality(X, s) ==
    [t \in steps(s) |->
        IF \E a \in DOMAIN s.activity_limits : X[a, t] = 1 THEN 1 ELSE 0]

\* M[lesson_id, 0] == 0 and
\* M[lesson_id, t] == M[lesson_id, t - 1] + sum(contribution * X[a, t])
\* leave every M[lesson_id, t] one value.
RECURSIVE accumulated(_, _, _, _)
accumulated(X, s, l, t) ==
    IF t = 0 THEN 0
    ELSE accumulated(X, s, l, t - 1)
         + SumOver(DOMAIN s.acquisition_matrix,
                   [a \in DOMAIN s.acquisition_matrix |->
                       s.acquisition_matrix[a][l] * X[a, t]])

mastery(X, s) ==
    [k \in (DOMAIN s.required_mastery_levels) \X (0..s.timesteps) |->
        accumulated(X, s, k[1], k[2])]

\* The domain of the variable stored under each key M[lesson_id, t].
mastery_domains(s) ==
    [k \in (DOMAIN s.required_mastery_levels) \X (0..s.timesteps) |->
        mastery_domain(s, k[1], k[2])]

\* Each M[lesson_id, t] lies in the domain D gives its variable.
in_domains(M, D) == \A k \in DOMAIN M : M[k] \in D[k]

\* The activities the gating loop visits for lesson l.
contributors(s, l) ==
    {a \in DOMAIN s.acquisition_matrix : s.acquisition_matrix[a][l] > 0}

prerequisites_gate_bug(X, M, s) ==
    \A l \in DOMAIN s.lesson_prerequisites : \A t \in steps(s) :
        LET prerequisites == s.lesson_prerequisites[l]
            all_satisfied ==
                \A p \in DOMAIN prerequisites : M[p, t] >= prerequisites[p]
        IN \A a \in contributors(s, l) : ~all_satisfied => X[a, t] = 0

\* Gating: bool_var holds iff M[prereq_lesson, t - 1] is at least the
\* threshold, all_satisfied iff every bool_var holds (an empty list of
\* them forces it true), and X[activity_id, t] is 0 without it.
prerequisites_gate(X, M, s) ==
    \A l \in DOMAIN s.lesson_prerequisites : \A t \in steps(s) :
        LET prerequisites == s.lesson_prerequisites[l]
            all_satisfied ==
                \A p \in DOMAIN prerequisites :
                    M[p, t - 1] >= prerequisites[p]
        IN \A a \in contributors(s, l) : ~all_satisfied => X[a, t] = 0

one_per_step(X, s) == \A t \in steps(s) : used_at(X, s, t) <= 1

contiguous_bug(X, s) ==
    \A t \in 1..(s.timesteps - 2) : used_at(X, s, t) >= used_at(X, s, t + 1)

\* for t in range(1, timesteps): sum X[., t] >= sum X[., t + 1]
contiguous(X, s) ==
    \A t \in 1..(s.timesteps - 1) : used_at(X, s, t) >= used_at(X, s, t + 1)

within_limits(X, s) ==
    \A a \in DOMAIN s.activity_limits :
        Cardinality({t \in steps(s) : X[a, t] = 1}) <= s.activity_limits[a]

reaches_required(M, s) ==
    \A l \in DOMAIN s.required_mastery_levels :
        M[l, s.timesteps] >= s.required_mastery_levels[l]

covered(X, s) ==
    \A l \in DOMAIN s.required_mastery_levels :
        Cardinality({k \in contributors(s, l) \X steps(s) : X[k] = 1})
            >= s.lesson_coverages[l]

\* add_constraints, over mastery variables whose domains are D.  The
\* constraints that read X alone are listed first; the order of posting
\* does not change the set of solutions.
add_constraints(X, s, D) ==
    LET M == mastery(X, s)
    IN /\ one_per_step(X, s)
       /\ contiguous(X, s)
       /\ within_limits(X, s)
       /\ covered(X, s)
       /\ in_domains(M, D)
       /\ prerequisites_gate(X, M, s)
       /\ reaches_required(M, s)

schedules(s, D) ==
    {X \in assignments(s) : add_constraints(X, s, D)}

\* set_objective: the number of active steps.
set_objective(X, s) ==
    Cardinality({t \in steps(s) : max_equality(X, s)[t] = 1})

\* CpSolver.Solve with no limit set: an optimal solution, or INFEASIBLE
\* when the model has none.
solve_schedule(s) ==
    LET found == schedules(s, mastery_domains(s))
        costs == {set_objective(X, s) : X \in found}
        least == CHOOSE c \in costs : \A d \in costs : c <= d
        best == {X \in found : set_objective(X, s) = least}
    IN IF found = {}
       THEN {[status |-> "INFEASIBLE", solution |-> EmptyDict]}
       ELSE {[status |-> "OPTIMAL",
              solution |-> [X |-> X, Y |-> max_equality(X, s),
                            M |-> mastery(X, s)]] : X \in best}

StepLevels == {1, 2}
StepCoverages == {0, 1}
StepLimits == {1, 2}

\* Lesson l > 1 has no prerequisite or lesson l - 1 at some threshold.
StepPrerequisiteChoices(l) ==
    {EmptyDict} \cup (IF l = 1 THEN {} ELSE {(l - 1) :> h : h \in StepLevels})

\* The lessons after the second repeat the second one's level and
\* threshold, one lesson further down the chain.
repeats(ls, l) ==
    l > 2 =>
        /\ ls[l].required_mastery_level = ls[2].required_mastery_level
        /\ (ls[l].prerequisites = EmptyDict) = (ls[2].prerequisites = EmptyDict)
        /\ \A p \in DOMAIN ls[l].prerequisites :
              ls[l].prerequisites[p] = ls[2].prerequisites[1]

StepLessonChoices ==
    {ls \in [1..NumStepLessons ->
                [required_mastery_level : StepLevels,
                 min_coverage : StepCoverages,
                 prerequisites :
                     UNION {StepPrerequisiteChoices(l) : l \in 1..NumStepLessons}]] :
        \A l \in 1..NumStepLessons :
            /\ ls[l].prerequisites \in StepPrerequisiteChoices(l)
            /\ ls[l].min_coverage = ls[1].min_coverage
            /\ repeats(ls, l)}

StepContributionChoices ==
    {EmptyDict, [l \in 1..NumStepLessons |-> 1]}
        \cup {l :> h : l \in 1..NumStepLessons, h \in StepLevels}

StepActivityChoices ==
    {acts \in [1..NumStepActivities ->
                  [max_selection_limit : StepLimits,
                   lesson_contributions : StepContributionChoices]] :
        \A a \in 1..NumStepActivities :
            /\ acts[a].max_selection_limit = acts[1].max_selection_limit
            /\ a > 2 => acts[a] = acts[2]}

InitTimestep ==
    /\ lessons \in StepLessonChoices
    /\ activities \in StepActivityChoices
    /\ timesteps = NumTimesteps
    /\ solution = EmptyDict
    /\ pc = "schedule"
    /\ levels = EmptyDict
    /\ max_sprint_size = DefaultMaxSprintSize
    /\ use_clustering = TRUE
    /\ cluster_distance = "jaccard"
    /\ sprint_input = <<>>
    /\ sprints = <<>>
    /\ sprint_error = "none"
    /\ current_mastery = EmptyDict
    /\ sprint_history = <<>>
    /\ next_sprint_id = 1
    /\ status = "none"
    /\ run_error = "none"
    /\ selected_activities = {}
    /\ outcome = "none"
    /\ lessons_file = <<>>
    /\ activities_file = <<>>

\* main(): build the scheduler and solve it.
Schedule ==
    /\ pc = "schedule"
    /\ \E r \in solve_schedule(ActivityScheduler(lessons, activities, timesteps)) :
          /\ status' = r.status
          /\ solution' = r.solution
    /\ pc' = "scheduled"
    /\ UNCHANGED <<lessons, activities, levels, max_sprint_size,
                   use_clustering, cluster_distance, sprint_input, sprints,
                   sprint_error, current_mastery, sprint_history,
                   next_sprint_id, run_error, selected_activities, outcome,
                   lessons_file, activities_file, timesteps>>

NextTimestep == Schedule

SpecTimestep == InitTimestep /\ [][NextTimestep]_vars

scheduler == ActivityScheduler(lessons, activities, timesteps)

touched(a) ==
    {l \in DOMAIN lessons : Get(activities[a].lesson_contributions, l) > 0}

\* C23: in every solution an activity with a positive contribution to a
\* lesson that has prerequisites is used at step t only if the mastery of
\* each prerequisite at step t - 1 is at least the level the lesson asks
\* of it; an assignment that uses only activities whose lessons all lack
\* prerequisites passes the gating constraints whatever its masteries.
C23_GatedOneStepBack ==
    pc = "scheduled" =>
        /\ \A X \in schedules(scheduler, mastery_domains(scheduler)) :
              \A a \in DOMAIN activities : \A t \in 1..timesteps :
                  X[a, t] = 1 =>
                      \A l \in touched(a) :
                          \A p \in DOMAIN lessons[l].prerequisites :
                              mastery(X, scheduler)[p, t - 1]
                                  >= lessons[l].prerequisites[p]
        /\ \A X \in assignments(scheduler) :
              (\A a \in DOMAIN activities : \A t \in 1..timesteps :
                  X[a, t] = 1 =>
                      \A l \in touched(a) :
                          lessons[l].prerequisites = EmptyDict)
              => prerequisites_gate(X, mastery(X, scheduler), scheduler)
        /\ status = "OPTIMAL" =>
              /\ solution.X \in schedules(scheduler, mastery_domains(scheduler))
              /\ solution.M = mastery(solution.X, scheduler)

\* The returned solution uses, after the first step, an activity of a
\* lesson with a prerequisite, and at the first step an activity whose
\* lessons have none.
C23_Witness ==
    /\ pc = "scheduled"
    /\ status = "OPTIMAL"
    /\ \E a \in DOMAIN activities : \E t \in 2..timesteps :
          /\ solution.X[a, t] = 1
          /\ \E l \in touched(a) : lessons[l].prerequisites # EmptyDict
    /\ \E a \in DOMAIN activities :
          /\ solution.X[a, 1] = 1
          /\ touched(a) # {}
          /\ \A l \in touched(a) : lessons[l].prerequisites = EmptyDict

\* The domain NewIntVar(0, int(SCALE * required), ...) gives a mastery
\* variable at every step 0..T.
integer_domain(s, l, t) == 0..(SCALE * s.required_mastery_levels[l])

integer_domains(s) ==
    [k \in (DOMAIN s.required_mastery_levels) \X (0..s.timesteps) |->
        integer_domain(s, k[1], k[2])]

\* C24: mastery is an integer variable at every step, so an instance
\* whose activities can supply the required levels within T steps under
\* the limits, the coverage and the gating is solved: solve returns a
\* schedule with mastery[l, T] >= required_level[l] for every lesson, and
\* none of those schedules has fewer active steps.
C24_SolvableInstancesSolved ==
    (pc = "scheduled" /\ schedules(scheduler, integer_domains(scheduler)) # {}) =>
        /\ status = "OPTIMAL"
        /\ solution.M = mastery(solution.X, scheduler)
        /\ \A l \in DOMAIN lessons :
              /\ solution.M[l, 0] = 0
              /\ solution.M[l, timesteps] >= lessons[l].required_mastery_level
        /\ \A Z \in schedules(scheduler, integer_domains(scheduler)) :
              set_objective(solution.X, scheduler) <= set_objective(Z, scheduler)

----------------------------------------------------------------------------
\* build_sprints on one depth group: a single lesson without
\* prerequisites, so every activity with an effectiveness has depth 0, and
\* up to NumGroupActivities of them, handed over in list order or reversed.

NumGroupActivities == 5
MaxGroupSprintSize == 2

InitGroup ==
    /\ lessons \in LessonChoices(1)
    /\ activities \in UNION {[1..n -> ActivityChoices(1, {1})] :
                               n \in 0..NumGroupActivities}
    /\ sprint_input \in {[i \in 1..Len(activities) |-> i],
                         [i \in 1..Len(activities) |-> Len(activities) + 1 - i]}
    /\ max_sprint_size \in 1..MaxGroupSprintSize
    /\ use_clustering \in BOOLEAN
    /\ cluster_distance \in {"euclidean", "jaccard"}
    /\ pc = "cluster"
    /\ levels = EmptyDict
    /\ sprints = <<>>
    /\ sprint_error = "none"
    /\ current_mastery = EmptyDict
    /\ sprint_history = <<>>
    /\ next_sprint_id = 1
    /\ status = "none"
    /\ run_error = "none"
    /\ selected_activities = <<>>
    /\ outcome = "none"
    /\ lessons_file = <<>>
    /\ activities_file = <<>>
    /\ timesteps = 0
    /\ solution = EmptyDict

NextGroup == BuildSprints

SpecGroup == InitGroup /\ [][NextGroup]_vars

\* The one depth group of the input: its activities with an effectiveness,
\* in input order.
the_group == SelectSeq(sprint_input, LAMBDA a : has_effectiveness(activities, a))

\* ceil(n / m), as the least count of m-sized sprints that holds n.
ceiling(n, m) == CHOOSE q \in 0..n : q * m >= n /\ \A r \in 0..n : r * m >= n => q <= r

\* C25: with clustering disabled a depth group of n activities becomes
\* ceil(n / max_sprint_size) sprints, every one but the last of size
\* max_sprint_size and the last of at most that size, and the sprints put
\* end to end are the group in input order.
C25_ChunkedInInputOrder ==
    (sprints_returned /\ ~use_clustering) =>
        /\ Len(sprints) = ceiling(Len(the_group), max_sprint_size)
        /\ \A j \in DOMAIN sprints :
              /\ j < Len(sprints) => Len(sprints[j]) = max_sprint_size
              /\ Len(sprints[j]) \in 1..max_sprint_size
        /\ Flatten(sprints) = the_group

\* Five same-depth activities handed over in reverse order with
\* max_sprint_size 2: sprints of sizes 2, 2, 1.
C25_Witness ==
    /\ sprints_returned
    /\ ~use_clustering
    /\ max_sprint_size = 2
    /\ the_group = <<5, 4, 3, 2, 1>>
    /\ sprints = <<<<5, 4>>, <<3, 2>>, <<1>>>>

\* C27: a depth group of n > max_sprint_size >= 1 activities is clustered
\* into k = max(1, min(n // 2, ceil(n / max_sprint_size))) clusters, and
\* 1 <= k <= n.
C27_ClusterCountInRange ==
    (sprints_returned /\ use_clustering /\ Len(the_group) > max_sprint_size) =>
        LET n == Len(the_group)
            k == Len(sprints)
        IN /\ k = Max2(1, Min2(n \div 2, ceiling(n, max_sprint_size)))
           /\ 1 <= k
           /\ k <= n

\* Five activities and max_sprint_size 2: n // 2 = 2 is below
\* ceil(5 / 2) = 3, and two clusters come back.
C27_Witness ==
    /\ sprints_returned
    /\ use_clustering
    /\ cluster_distance = "jaccard"
    /\ max_sprint_size = 2
    /\ Len(the_group) = 5
    /\ Len(sprints) = 2

\* C26: the record step of a cycle hands record_sprint exactly the
\* activities of sprints[0] of this cycle's build_sprints result: the log
\* it appends lists them, completed_activity_ids grows by them and by
\* nothing else, and the selected activities of the later sprints stay
\* candidates of the next solve.
C26_OnlyFirstSprintPerformed ==
    [][(pc = "record" /\ sprints # <<>>) =>
          /\ Len(sprint_history') = Len(sprint_history) + 1
          /\ sprint_history'[Len(sprint_history')].activities = sprints[1]
          /\ completed_activity_ids(sprint_history') =
                 completed_activity_ids(sprint_history) \cup Range(sprints[1])
          /\ \A j \in 2..Len(sprints) : \A a \in Range(sprints[j]) :
                 /\ a \notin completed_activity_ids(sprint_history')
                 /\ a \in candidates(activities', sprint_history')]_vars

\* A sprint was recorded in a cycle whose result had a second sprint, one
\* of whose activities is still a candidate.
C26_Witness ==
    /\ pc = "select"
    /\ Len(sprints) >= 2
    /\ Len(sprint_history) >= 1
    /\ sprint_history[Len(sprint_history)].activities = sprints[1]
    /\ \E a \in Range(sprints[2]) : a \in candidates(activities, sprint_history)

\* The selections feasible under accumulation and threshold alone.
ungated_selections ==
    LET cand == candidates(activities, sprint_history)
    IN {S \in SUBSET cand :
           threshold_ok(lessons, activities, cand, current_mastery, S)}

\* The selections feasible under accumulation, threshold and gating.
gated_selections ==
    LET cand == candidates(activities, sprint_history)
    IN {S \in SUBSET cand :
           feasible(lessons, activities, cand, current_mastery, S)}

\* C28: for every input of a solve the gating constraints change nothing:
\* the model with them is built as the model without them is, and the
\* selections feasible under accumulation + threshold + gating are those
\* feasible under accumulation + threshold, so the optimum is the same.
C28_GatingImpliedByThreshold ==
    pc = "select" =>
        /\ ~add_constraints_raises(lessons, activities,
                                   candidates(activities, sprint_history))
        /\ gated_selections = ungated_selections

\* C29: whenever the solver has returned a non-empty selection and
\* build_sprints has returned, there is a first sprint and it holds an
\* activity, so sprints[0] does not fail and the log that is appended is
\* not empty.
C29_FirstSprintNonEmpty ==
    pc = "record" =>
        /\ selected_activities # <<>>
        /\ sprints # <<>>
        /\ sprints[1] # <<>>

\* The first solve starts from no mastery and no history.
first_solve_feasible ==
    /\ ~add_constraints_raises(lessons, activities, DOMAIN activities)
    /\ \E S \in SUBSET DOMAIN activities :
          feasible(lessons, activities, DOMAIN activities, EmptyDict, S)

\* Every performance score supplied so far is 1.0.
perfect_scores ==
    \A i \in DOMAIN sprint_history :
        \A a \in DOMAIN sprint_history[i].performances :
            sprint_history[i].performances[a] = 100

\* C30: when the first solve is feasible and every score is 1.0, every
\* later solve has a feasible selection, and a loop that has stopped
\* (other than by the solver's time limit) stopped on an empty selection
\* with every lesson at or above its min_mastery.
C30_PerfectPerformanceAchievesPlan ==
    (first_solve_feasible /\ perfect_scores) =>
        /\ pc = "select" =>
              /\ ~add_constraints_raises(lessons, activities,
                                         candidates(activities, sprint_history))
              /\ gated_selections # {}
        /\ (pc \in {"ended", "crashed"} /\ status # "UNKNOWN") =>
              /\ outcome = "no_selection"
              /\ status \in {"OPTIMAL", "FEASIBLE"}
              /\ remaining_gap = {}

============================================================================
